---- MODULE Spec2Model ----
(***************************************************************************)
(* Painel Dash "Previsao de Chuva - Divino" (app.py).                      *)
(*                                                                         *)
(* The model covers the image-set discovery and scene composition of       *)
(* app.py: the startup scan of IMG_DIR (listar_datas_disponiveis, DATAS,   *)
(* DATA_DEFAULT), the payload loaders (carregar_imagem_base64,             *)
(* carregar_png_fixo_base64), the figure builders                          *)
(* (construir_figura_estatica, construir_animacao, adicionar_pontos_foco), *)
(* the figure of the fixed chart built at import (fig_fixo) and the Dash   *)
(* callback (atualizar_mapa).                                              *)
(*                                                                         *)
(* A Python str is a sequence of code points, a bytes object a sequence of *)
(* integers 0..255.  None (of the data_iso argument) is the one-element    *)
(* sequence <<-1>>, which is no string.                                    *)
(*                                                                         *)
(* The import of the module and each call of the callback read IMG_DIR     *)
(* several times (glob, exists, open) and take no lock, while the forecast *)
(* pipeline writes and deletes files there.  The import is one action, and *)
(* so is a call; what each of its readings finds is an input of the action *)
(* (fs): the same directory for all of them, or the directory before and   *)
(* after a change that falls between two of the readings, and the order in *)
(* which a glob lists the files, which nothing fixes.                      *)
(***************************************************************************)
EXTENDS Integers, Sequences, FiniteSets

VARIABLES
    imgDirExists,   \* IMG_DIR.exists()
    arquivos,       \* names of the files now in IMG_DIR
    pc,             \* "import" (module being imported), "ready", "aborted"
    erro,           \* exception that ended the import, or "none"
    DATAS,          \* module global DATAS
    DATA_DEFAULT,   \* module global DATA_DEFAULT
    fig_fixo,       \* module global fig_fixo, the figure of the fixed chart
    resp,           \* the last call of the callback since IMG_DIR last changed:
                    \* its arguments, what it returned, and whether IMG_DIR
                    \* changed while it ran (history)
    fixada          \* an earlier call made since IMG_DIR last changed, kept
                    \* while the calls after it ask for the same figure
                    \* (history)

vars == <<imgDirExists, arquivos, pc, erro, DATAS, DATA_DEFAULT, fig_fixo,
          resp, fixada>>

\* ---------------------------------------------------------------- bounds

\* Largest number of files IMG_DIR holds at one time.
MaxFiles == 2

\* ------------------------------------------------------- string constants

None == <<-1>>

\* "divino_prec_"
PrefixPrec == <<100, 105, 118, 105, 110, 111, 95, 112, 114, 101, 99, 95>>
\* "divino_prec_acumulada_"
PrefixAcum == <<100, 105, 118, 105, 110, 111, 95, 112, 114, 101, 99, 95,
                97, 99, 117, 109, 117, 108, 97, 100, 97, 95>>
\* ".png"
PngExt == <<46, 112, 110, 103>>
\* "data:image/png;base64,"
DataUri == <<100, 97, 116, 97, 58, 105, 109, 97, 103, 101, 47, 112, 110, 103,
             59, 98, 97, 115, 101, 54, 52, 44>>
\* "Precipitacao diaria (mm)" with its accents (c-cedilla 231, a-tilde 227, a-acute 225)
LabelPrec == <<80, 114, 101, 99, 105, 112, 105, 116, 97, 231, 227, 111, 32,
               100, 105, 225, 114, 105, 97, 32, 40, 109, 109, 41>>
\* "Precipitacao acumulada no periodo (mm)" with its accents
LabelAcum == <<80, 114, 101, 99, 105, 112, 105, 116, 97, 231, 227, 111, 32,
               97, 99, 117, 109, 117, 108, 97, 100, 97, 32, 110, 111, 32,
               112, 101, 114, 237, 111, 100, 111, 32, 40, 109, 109, 41>>
\* " - " with an en dash (8211), the separator of the daily title
TituloSep == <<32, 8211, 32>>
\* "Precipitacao prevista (mm/dia) - 4 pontos" with its accents and its em
\* dash (8212), the title of the fixed chart
TituloFixo == <<80, 114, 101, 99, 105, 112, 105, 116, 97, 231, 227, 111, 32,
                112, 114, 101, 118, 105, 115, 116, 97, 32, 40, 109, 109, 47,
                100, 105, 97, 41, 32, 8212, 32, 52, 32, 112, 111, 110, 116,
                111, 115>>

\* VAR_OPCOES: the two variables, their label, prefix and usa_data flag.
VAR_OPCOES ==
    [prec      |-> [label |-> LabelPrec, prefix |-> PrefixPrec, usa_data |-> TRUE],
     prec_acum |-> [label |-> LabelAcum, prefix |-> PrefixAcum, usa_data |-> FALSE]]

\* ------------------------------------------------- the files of the runs

\* "2025-11-10", "2025-9-1", "2025-02-30", "2025-11-11"
Tag_2025_11_10 == <<50, 48, 50, 53, 45, 49, 49, 45, 49, 48>>
Tag_2025_9_1   == <<50, 48, 50, 53, 45, 57, 45, 49>>
\* "2025-11-10" with its year in Arabic-Indic digits (U+0662 U+0660 U+0662 U+0665)
Tag_Ar_2025_11_10 == <<1634, 1632, 1634, 1637, 45, 49, 49, 45, 49, 48>>
Tag_2025_02_30 == <<50, 48, 50, 53, 45, 48, 50, 45, 51, 48>>
Tag_2025_11_11 == <<50, 48, 50, 53, 45, 49, 49, 45, 49, 49>>
\* "2025-11-10_a_2025-11-12", "2025-11-01_a_2025-11-03"
Periodo_10_12 == <<50, 48, 50, 53, 45, 49, 49, 45, 49, 48, 95, 97, 95,
                   50, 48, 50, 53, 45, 49, 49, 45, 49, 50>>
Periodo_01_03 == <<50, 48, 50, 53, 45, 49, 49, 45, 48, 49, 95, 97, 95,
                   50, 48, 50, 53, 45, 49, 49, 45, 48, 51>>
\* "prec_4_pontos_2x2.png"
FIXO_4PONTOS_PNG == <<112, 114, 101, 99, 95, 52, 95, 112, 111, 110, 116, 111,
                      115, 95, 50, 120, 50, 46, 112, 110, 103>>

DailyFile(tag) == PrefixPrec \o tag \o PngExt
AcumFile(periodo) == PrefixAcum \o periodo \o PngExt

\* The file names the forecast pipeline may deposit in IMG_DIR: three daily
\* maps (one with a month and day that are not zero-padded, one with a year
\* in digits that are not ASCII), a daily name whose date is no calendar
\* date, two accumulated maps and the fixed chart.
NomesPossiveis ==
    { DailyFile(Tag_2025_11_10), DailyFile(Tag_2025_9_1),
      DailyFile(Tag_Ar_2025_11_10), DailyFile(Tag_2025_02_30),
      AcumFile(Periodo_10_12), AcumFile(Periodo_01_03), FIXO_4PONTOS_PNG }

\* The bytes of each file (f.read()): fixed per name, all different, of
\* lengths 0 to 4 so that every padding case of base64 occurs.
FileBytes(nome) ==
    CASE nome = DailyFile(Tag_2025_11_10)    -> <<137>>
      [] nome = DailyFile(Tag_2025_9_1)      -> <<137, 80>>
      [] nome = DailyFile(Tag_Ar_2025_11_10) -> <<>>
      [] nome = DailyFile(Tag_2025_02_30)    -> <<80, 78, 71>>
      [] nome = AcumFile(Periodo_10_12)      -> <<137, 80, 78, 71>>
      [] nome = AcumFile(Periodo_01_03)      -> <<255, 0, 16>>
      [] OTHER                               -> <<71>>

\* ------------------------------------------------------------ str helpers

Min2(a, b) == IF a <= b THEN a ELSE b

\* s < t for Python str (and for two paths of one directory): code-point
\* lexicographic order, a proper prefix being smaller.
StrLess(s, t) ==
    \E k \in 1..(Min2(Len(s), Len(t)) + 1) :
        /\ \A i \in 1..(k - 1) : s[i] = t[i]
        /\ \/ k > Len(s) /\ k <= Len(t)
           \/ k <= Len(s) /\ k <= Len(t) /\ s[k] < t[k]

RECURSIVE sorted(_)
\* sorted(S): the elements of a set of strings, ascending.
sorted(S) ==
    IF S = {} THEN <<>>
    ELSE LET m == CHOOSE x \in S : \A y \in S : x = y \/ StrLess(x, y)
         IN  <<m>> \o sorted(S \ {m})

StartsWith(s, p) == Len(s) >= Len(p) /\ SubSeq(s, 1, Len(p)) = p
EndsWith(s, p) == Len(s) >= Len(p) /\ SubSeq(s, Len(s) - Len(p) + 1, Len(s)) = p

\* fnmatch of a name against the pattern  <prefix>*.png
FnMatch(nome, prefix) ==
    /\ Len(nome) >= Len(prefix) + Len(PngExt)
    /\ StartsWith(nome, prefix)
    /\ EndsWith(nome, PngExt)

\* IMG_DIR.glob(f"{prefix}*.png"), IMG_DIR holding the files dir: the
\* matching files, in the order the directory lists them, which nothing
\* fixes; here by name, ascending or (inv) descending.
Glob(dir, prefix, inv) ==
    LET s == sorted({ n \in dir : FnMatch(n, prefix) })
    IN  IF inv THEN [i \in 1..Len(s) |-> s[Len(s) + 1 - i]] ELSE s

\* The orders in which that glob may list the files: one when fewer than
\* two files match.
OrdensDoGlob(dir, prefix) ==
    IF Cardinality({ n \in dir : FnMatch(n, prefix) }) < 2 THEN {FALSE}
    ELSE BOOLEAN

\* The items an iteration over a list meets.
Elems(q) == { q[i] : i \in 1..Len(q) }

\* Path.stem: the name up to its last dot, when that dot is neither the
\* first nor the last character.
Stem(nome) ==
    LET dots == { i \in 1..Len(nome) : nome[i] = 46 }
    IN  IF dots = {} THEN nome
        ELSE LET i == CHOOSE j \in dots : \A k \in dots : k <= j
             IN  IF 1 < i /\ i < Len(nome) THEN SubSeq(nome, 1, i - 1) ELSE nome

\* s.replace(old, "", 1): s without the first occurrence of old.
ReplaceFirst(s, old) ==
    LET occ == { k \in 1..(Len(s) - Len(old) + 1) :
                    SubSeq(s, k, k + Len(old) - 1) = old }
    IN  IF occ = {} THEN s
        ELSE LET k == CHOOSE j \in occ : \A l \in occ : j <= l
             IN  SubSeq(s, 1, k - 1) \o SubSeq(s, k + Len(old), Len(s))

\* ------------------------------------------- datetime.strptime / strftime

\* The code point of the digit zero of every script that has decimal digits
\* (Unicode category Nd): its ten digits follow one another from there.
\* ASCII is 48, Arabic-Indic 1632, fullwidth 65296.
DigitZeros ==
    {
      48, 1632, 1776, 1984, 2406, 2534, 2662, 2790,
      2918, 3046, 3174, 3302, 3430, 3558, 3664, 3792,
      3872, 4160, 4240, 6112, 6160, 6470, 6608, 6784,
      6800, 6992, 7088, 7232, 7248, 42528, 43216, 43264,
      43472, 43504, 43600, 44016, 65296, 66720, 68912, 69734,
      69872, 69942, 70096, 70384, 70736, 70864, 71248, 71360,
      71472, 71904, 72016, 72784, 73040, 73120, 92768, 92864,
      93008, 120782, 120792, 120802, 120812, 120822, 123200, 123632,
      125264, 130032 }

\* \d of the pattern that strptime compiles (a str pattern: any decimal
\* digit of Unicode), and the value int() gives such a digit.
IsDigit(c) == c \in 48..57 \/ \E z \in DigitZeros : c \in z..(z + 9)
DigitVal(c) ==
    IF c \in 48..57 THEN c - 48
    ELSE c - (CHOOSE z \in DigitZeros : c \in z..(z + 9))

LeapYear(y) == (y % 4 = 0 /\ y % 100 # 0) \/ y % 400 = 0

DaysInMonth(y, m) ==
    IF m = 2 THEN (IF LeapYear(y) THEN 29 ELSE 28)
    ELSE IF m \in {4, 6, 9, 11} THEN 30 ELSE 31

\* Length of the text the month group  1[0-2]|0[1-9]|[1-9]  takes at
\* position p of s: the first alternative that is followed by "-", the
\* literal that comes next in the pattern; 0 when none does.
MonthLen(s, p) ==
    LET c(i) == IF i <= Len(s) THEN s[i] ELSE 0
        two == \/ c(p) = 49 /\ c(p + 1) \in 48..50
               \/ c(p) = 48 /\ c(p + 1) \in 49..57
    IN  IF two /\ c(p + 2) = 45 THEN 2
        ELSE IF c(p) \in 49..57 /\ c(p + 1) = 45 THEN 1
        ELSE 0

\* Length of the text the day group  3[0-1]|[1-2]\d|0[1-9]|[1-9]| [1-9]
\* takes at position p of s (the first alternative that matches); 0 when
\* none does.
DayLen(s, p) ==
    LET c(i) == IF i <= Len(s) THEN s[i] ELSE 0
    IN  IF \/ c(p) = 51 /\ c(p + 1) \in 48..49
           \/ c(p) \in 49..50 /\ IsDigit(c(p + 1))
           \/ c(p) = 48 /\ c(p + 1) \in 49..57
           \/ c(p) = 32 /\ c(p + 1) \in 49..57
        THEN 2
        ELSE IF c(p) \in 49..57 THEN 1
        ELSE 0

\* int() of a run of digits, a leading space allowed.
RECURSIVE ToInt(_)
ToInt(s) ==
    IF s = <<>> THEN 0
    ELSE IF s[Len(s)] = 32 THEN ToInt(SubSeq(s, 1, Len(s) - 1))
    ELSE 10 * ToInt(SubSeq(s, 1, Len(s) - 1)) + DigitVal(s[Len(s)])

\* datetime.strptime(s, "%Y-%m-%d"): [ok |-> TRUE, y, m, d], or ok = FALSE
\* and the exception: TypeError when s is None, ValueError when the text
\* does not match the format, unconverted data remains, or the day or year
\* is out of range.
strptime(s) ==
    LET bad == [ok |-> FALSE, exc |-> "ValueError", y |-> 0, m |-> 0, d |-> 0]
    IN  IF s = None THEN [bad EXCEPT !.exc = "TypeError"]
        ELSE IF Len(s) < 5 THEN bad
        ELSE IF ~((\A i \in 1..4 : IsDigit(s[i])) /\ s[5] = 45) THEN bad
        ELSE LET ml == MonthLen(s, 6)
                 dp == 6 + ml + 1
                 dl == DayLen(s, dp)
             IN  IF ml = 0 \/ dl = 0 THEN bad
                 ELSE IF dp + dl - 1 # Len(s) THEN bad
                 ELSE LET y == ToInt(SubSeq(s, 1, 4))
                          m == ToInt(SubSeq(s, 6, 5 + ml))
                          d == ToInt(SubSeq(s, dp, Len(s)))
                      IN  IF y < 1 \/ d > DaysInMonth(y, m) THEN bad
                          ELSE [ok |-> TRUE, exc |-> "none",
                                y |-> y, m |-> m, d |-> d]

RECURSIVE Decimal(_)
\* The decimal digits of n >= 0.
Decimal(n) ==
    IF n < 10 THEN <<48 + n>> ELSE Decimal(n \div 10) \o <<48 + (n % 10)>>

TwoDigits(n) == <<48 + (n \div 10), 48 + (n % 10)>>

\* dt.strftime("%d/%m/%Y")
strftime(dt) == TwoDigits(dt.d) \o <<47>> \o TwoDigits(dt.m) \o <<47>> \o Decimal(dt.y)

\* formatar_label_br: '2025-11-13' -> '13/11/2025'; ok = FALSE and the
\* exception of strptime where the call raises.
formatar_label_br(data_iso) ==
    LET dt == strptime(data_iso)
    IN  IF dt.ok THEN [ok |-> TRUE, exc |-> "none", label |-> strftime(dt)]
        ELSE [ok |-> FALSE, exc |-> dt.exc, label |-> <<>>]

\* ------------------------------------------------------- base64.b64encode

B64Char(i) ==
    IF i < 26 THEN 65 + i
    ELSE IF i < 52 THEN 97 + (i - 26)
    ELSE IF i < 62 THEN 48 + (i - 52)
    ELSE IF i = 62 THEN 43 ELSE 47

RECURSIVE b64encode(_)
b64encode(bs) ==
    IF bs = <<>> THEN <<>>
    ELSE IF Len(bs) = 1 THEN
        <<B64Char(bs[1] \div 4), B64Char((bs[1] % 4) * 16), 61, 61>>
    ELSE IF Len(bs) = 2 THEN
        <<B64Char(bs[1] \div 4),
          B64Char((bs[1] % 4) * 16 + bs[2] \div 16),
          B64Char((bs[2] % 16) * 4), 61>>
    ELSE
        <<B64Char(bs[1] \div 4),
          B64Char((bs[1] % 4) * 16 + bs[2] \div 16),
          B64Char((bs[2] % 16) * 4 + bs[3] \div 64),
          B64Char(bs[3] % 64)>> \o b64encode(SubSeq(bs, 4, Len(bs)))

\* ---------------------------------------------- listar_datas_disponiveis

\* stem.replace("divino_prec_", "", 1) of one globbed path
ParteData(nome) == ReplaceFirst(Stem(nome), PrefixPrec)

\* Variant of DatasEncontradas: every parte_data is added, the strptime
\* check left out.
DatasSemValidar(dir, inv) ==
    { ParteData(n) : n \in Elems(Glob(dir, PrefixPrec, inv)) }

\* The set `datas` the loop builds: parte_data of every file the glob
\* divino_prec_*.png yields for which strptime does not raise.
DatasEncontradas(dir, inv) ==
    { ParteData(n) :
        n \in { f \in Elems(Glob(dir, PrefixPrec, inv)) :
                  strptime(ParteData(f)).ok } }

\* listar_datas_disponiveis(), when IMG_DIR exists and holds the files dir.
listar_datas_disponiveis(dir, inv) == sorted(DatasEncontradas(dir, inv))

\* -------------------------------------------------- carregar_imagem_base64

\* f"data:image/png;base64,{encoded}" of the bytes of one file
DataUriDe(nome) == DataUri \o b64encode(FileBytes(nome))

\* The readings of IMG_DIR one call of carregar_imagem_base64 makes, in
\* order: the glob (prec_acum only), img_path.exists(), open(img_path).
Leituras(var_key) == IF var_key = "prec_acum" THEN 3 ELSE 2

\* What the readings of the import, or of one call of the callback, find.
\* fs names the files of IMG_DIR before and after the one change that falls
\* between two of them, k, the first reading made after that change, and
\* inv, the order in which its glob lists the files; reading i finds:
DirNaLeitura(fs, i) == IF i < fs.k THEN fs.antes ELSE fs.depois

\* The fs of an import or a call during which IMG_DIR holds the files dir
\* throughout.
Estavel(dir, inv) == [k |-> 1, antes |-> dir, depois |-> dir, inv |-> inv]

\* What the loader yields when open(img_path) raises FileNotFoundError:
\* no string.
ErroAoAbrir == <<-2>>

\* carregar_png_fixo_base64(nome_arquivo): img_path.exists() at reading j,
\* open(img_path) at reading j + 1.
carregar_png_fixo_base64(nome_arquivo, fs, j) ==
    IF nome_arquivo \notin DirNaLeitura(fs, j) THEN <<>>
    ELSE IF nome_arquivo \notin DirNaLeitura(fs, j + 1) THEN ErroAoAbrir
    ELSE DataUriDe(nome_arquivo)

\* Variant of carregar_imagem_base64: candidates = list(IMG_DIR.glob(...)),
\* without sorted.
carregar_sem_ordenar(var_key, data_iso, fs, j) ==
    LET prefix == VAR_OPCOES[var_key].prefix
        Ler(img_path, e) ==
            IF img_path \notin DirNaLeitura(fs, e) THEN <<>>
            ELSE IF img_path \notin DirNaLeitura(fs, e + 1) THEN ErroAoAbrir
            ELSE DataUriDe(img_path)
    IN  IF var_key = "prec_acum" THEN
            LET candidates == Glob(DirNaLeitura(fs, j), prefix, fs.inv)
            IN  IF candidates = <<>> THEN <<>>
                ELSE Ler(candidates[Len(candidates)], j + 1)
        ELSE IF data_iso = None THEN <<>>
        ELSE Ler(prefix \o data_iso \o PngExt, j)

\* carregar_imagem_base64(var_key, data_iso), j being the number of the
\* first reading of IMG_DIR it makes within the call of the callback; "" is
\* <<>>.  The file found by exists() and gone at open() raises.
carregar_imagem_base64(var_key, data_iso, fs, j) ==
    LET prefix == VAR_OPCOES[var_key].prefix
        \* img_path.exists() at reading e, open(img_path) at reading e + 1
        Ler(img_path, e) ==
            IF img_path \notin DirNaLeitura(fs, e) THEN <<>>
            ELSE IF img_path \notin DirNaLeitura(fs, e + 1) THEN ErroAoAbrir
            ELSE DataUriDe(img_path)
    IN  IF var_key = "prec_acum" THEN
            LET candidates ==
                    sorted(Elems(Glob(DirNaLeitura(fs, j), prefix, fs.inv)))
            IN  IF candidates = <<>> THEN <<>>
                ELSE Ler(candidates[Len(candidates)], j + 1)
        ELSE IF data_iso = None THEN <<>>
        ELSE Ler(prefix \o data_iso \o PngExt, j)

\* ------------------------------------------------------------ the figures

\* Variant of PONTOS_FOCO: the example entry of the source, "Casa" at
\* x = 0.45, y = 0.60, no longer a comment (coordinates in hundredths).
PONTOS_FOCO_exemplo == << [nome |-> "Casa", x |-> 45, y |-> 60] >>

\* Module global PONTOS_FOCO, as the list of its items: the empty dict.
\* Nothing assigns it or adds to it.
PONTOS_FOCO == <<>>

\* Duration of one animation frame, in ms.
FRAME_DURATION == 500

\* go.Figure(): no title, no layout image, no trace, no frame.  exc names
\* the exception when the call that should have returned a figure raised.
FiguraVazia ==
    [exc |-> "none", title |-> <<>>, images |-> <<>>, data |-> <<>>,
     frames |-> <<>>, steps |-> <<>>, duration |-> 0]

Raised(e) == [FiguraVazia EXCEPT !.exc = e]

\* adicionar_pontos_foco(fig): one Scatter trace with one marker per item of
\* PONTOS_FOCO, in the order of the dict; fig itself when the dict is empty.
adicionar_pontos_foco(fig) ==
    IF PONTOS_FOCO = <<>> THEN fig
    ELSE LET n == Len(PONTOS_FOCO)
             trace == [x    |-> [i \in 1..n |-> PONTOS_FOCO[i].x],
                       y    |-> [i \in 1..n |-> PONTOS_FOCO[i].y],
                       text |-> [i \in 1..n |-> PONTOS_FOCO[i].nome]]
         IN  [fig EXCEPT !.data = Append(@, trace)]

\* construir_figura_estatica(src, titulo)
construir_figura_estatica(src, titulo) ==
    IF src = <<>> THEN [FiguraVazia EXCEPT !.title = titulo]
    ELSE [adicionar_pontos_foco([FiguraVazia EXCEPT !.images = <<src>>])
            EXCEPT !.title = titulo]

\* src = carregar_imagem_base64(...); return construir_figura_estatica(src,
\* titulo): the exception of the loader passes through the callback.
FiguraEstaticaDe(src, titulo) ==
    IF src = ErroAoAbrir THEN Raised("FileNotFoundError")
    ELSE construir_figura_estatica(src, titulo)

\* The body of construir_animacao for a list of dates that is not empty:
\* src0 (the first readings), one frame per date (the readings that
\* follow), the slider steps.  The first exception raised ends the call.
AnimacaoDe(var_key, datas, fs) ==
    LET n == Leituras(var_key)
        src0 == carregar_imagem_base64(var_key, datas[1], fs, 1)
        frames == [i \in 1..Len(datas) |->
                      [name   |-> datas[i],
                       source |-> carregar_imagem_base64(var_key, datas[i],
                                                         fs, 1 + i * n)]]
        labels == [i \in 1..Len(frames) |-> formatar_label_br(frames[i].name)]
        ruins == { i \in 1..Len(labels) : ~labels[i].ok }
    IN  IF \/ src0 = ErroAoAbrir
           \/ \E i \in 1..Len(frames) : frames[i].source = ErroAoAbrir
        THEN Raised("FileNotFoundError")
        ELSE IF ruins # {}
        THEN Raised(labels[CHOOSE i \in ruins : \A j \in ruins : i <= j].exc)
        ELSE adicionar_pontos_foco(
               [FiguraVazia EXCEPT
                  !.images = <<src0>>,
                  !.frames = frames,
                  !.steps = [i \in 1..Len(labels) |-> labels[i].label],
                  !.duration = FRAME_DURATION])

\* construir_animacao(var_key, datas_iso)
construir_animacao(var_key, datas_iso, fs) ==
    IF datas_iso = <<>> THEN Raised("IndexError")   \* datas_iso[0]
    ELSE AnimacaoDe(var_key, datas_iso, fs)

\* ---------------------------------------------------------- atualizar_mapa

\* Variant of atualizar_mapa: the mode is tested before the variable.
atualizar_mapa_modo_primeiro(data_iso, var_key, modo, fs) ==
    IF var_key = "None" THEN FiguraVazia
    ELSE IF modo # "dia" THEN construir_animacao(var_key, DATAS, fs)
    ELSE IF var_key = "prec_acum" THEN
        FiguraEstaticaDe(carregar_imagem_base64("prec_acum", None, fs, 1),
                         VAR_OPCOES[var_key].label)
    ELSE IF data_iso = None THEN FiguraVazia
    ELSE LET label_data == formatar_label_br(data_iso)
         IN  IF ~label_data.ok THEN Raised(label_data.exc)
             ELSE FiguraEstaticaDe(
                    carregar_imagem_base64(var_key, data_iso, fs, 1),
                    VAR_OPCOES[var_key].label \o TituloSep \o label_data.label)

\* The callback atualizar_mapa(data_iso, var_key, modo), its readings of
\* IMG_DIR finding what fs says: the figure it returns, or Raised(e) when it
\* raises e.
atualizar_mapa(data_iso, var_key, modo, fs) ==
    IF var_key = "None" THEN FiguraVazia
    ELSE
      LET info == VAR_OPCOES[var_key]
      IN  IF var_key = "prec_acum" THEN
              FiguraEstaticaDe(carregar_imagem_base64("prec_acum", None, fs, 1),
                               info.label)
          ELSE IF modo = "dia" THEN
              IF data_iso = None THEN FiguraVazia
              ELSE LET label_data == formatar_label_br(data_iso)
                   IN  IF ~label_data.ok THEN Raised(label_data.exc)
                       ELSE FiguraEstaticaDe(
                              carregar_imagem_base64(var_key, data_iso, fs, 1),
                              info.label \o TituloSep \o label_data.label)
          ELSE construir_animacao(var_key, DATAS, fs)

\* ------------------------------------------------------------ the inputs

\* The values of the date dropdown a call may carry: every entry of DATAS
\* (the options of the dropdown, DATA_DEFAULT the one selected when the page
\* loads), none, and what only a hand-made request carries: a date that is
\* not in DATAS, and a string that is no calendar date.
DatasPedidas ==
    { DATAS[i] : i \in 1..Len(DATAS) }
        \cup { None, Tag_2025_11_11, Tag_2025_02_30 }

Pedidos == [var : {"prec", "prec_acum"}, data : DatasPedidas, modo : {"dia", "anim"}]

SemPedido == [var |-> "None", data |-> None, modo |-> "None"]
SemResposta == [req |-> SemPedido, fig |-> FiguraVazia, corrida |-> FALSE]

\* ------------------------------------------------------------- the import

\* Variant of importar: no check that DATAS is not empty, and
\* DATA_DEFAULT = DATAS[-1] if DATAS else None.
importar_sem_checar_datas(fs) ==
    LET nada == [pc |-> "aborted", erro |-> "FileNotFoundError", DATAS |-> <<>>,
                 DATA_DEFAULT |-> None, fig_fixo |-> FiguraVazia]
    IN  IF ~imgDirExists THEN nada
        ELSE
          LET datas == listar_datas_disponiveis(DirNaLeitura(fs, 2), fs.inv)
              padrao == IF datas = <<>> THEN None ELSE datas[Len(datas)]
              src_fixo == carregar_png_fixo_base64(FIXO_4PONTOS_PNG, fs, 3)
          IN  IF src_fixo = ErroAoAbrir
              THEN [nada EXCEPT !.DATAS = datas, !.DATA_DEFAULT = padrao]
              ELSE [pc |-> "ready", erro |-> "none", DATAS |-> datas,
                    DATA_DEFAULT |-> padrao,
                    fig_fixo |-> construir_figura_estatica(src_fixo, TituloFixo)]

\* The module-level code, as far as the first exception: what it leaves in
\* the module globals.  Its readings of IMG_DIR are IMG_DIR.exists() (1) and
\* the glob (2) of listar_datas_disponiveis, then img_path.exists() (3) and
\* open(img_path) (4) of carregar_png_fixo_base64.  An exception ends the
\* import (pc = "aborted"): no app, no layout, no callback.
importar(fs) ==
    LET nada == [pc |-> "aborted", erro |-> "FileNotFoundError", DATAS |-> <<>>,
                 DATA_DEFAULT |-> None, fig_fixo |-> FiguraVazia]
    IN  IF ~imgDirExists THEN nada
        ELSE
          LET datas == listar_datas_disponiveis(DirNaLeitura(fs, 2), fs.inv)
              src_fixo == carregar_png_fixo_base64(FIXO_4PONTOS_PNG, fs, 3)
          IN  IF datas = <<>> THEN [nada EXCEPT !.erro = "RuntimeError"]
              ELSE IF src_fixo = ErroAoAbrir
              THEN [nada EXCEPT !.DATAS = datas, !.DATA_DEFAULT = datas[Len(datas)]]
              ELSE [pc |-> "ready", erro |-> "none", DATAS |-> datas,
                    DATA_DEFAULT |-> datas[Len(datas)],
                    fig_fixo |-> construir_figura_estatica(src_fixo, TituloFixo)]

\* ------------------------------------------------------------ the machine

Init ==
    /\ imgDirExists \in BOOLEAN
    /\ arquivos \in { S \in SUBSET NomesPossiveis :
                        /\ Cardinality(S) <= MaxFiles
                        /\ (~imgDirExists => S = {}) }
    /\ pc = "import"
    /\ erro = "none"
    /\ DATAS = <<>>
    /\ DATA_DEFAULT = None
    /\ fig_fixo = FiguraVazia
    /\ resp = SemResposta
    /\ fixada = SemResposta

\* The module globals after the import that found what fs says.
Importado(fs) ==
    LET m == importar(fs)
    IN  /\ pc' = m.pc
        /\ erro' = m.erro
        /\ DATAS' = m.DATAS
        /\ DATA_DEFAULT' = m.DATA_DEFAULT
        /\ fig_fixo' = m.fig_fixo

\* The module is imported, and IMG_DIR does not change meanwhile.
ImportarModulo(inv) ==
    /\ pc = "import"
    /\ Importado(Estavel(arquivos, inv))
    /\ UNCHANGED <<imgDirExists, arquivos, resp, fixada>>

\* The module is imported, and meanwhile the fixed chart is written or
\* deleted, after the glob: before img_path.exists() (k = 3) or between it
\* and open(img_path) (k = 4).  (A change before the glob is another
\* directory at Init; a change of a map after the glob is Depositar or
\* Remover after the import.)
ImportarComCorrida(nome, k, inv) ==
    /\ pc = "import"
    /\ imgDirExists
    /\ nome = FIXO_4PONTOS_PNG
    /\ k \in 3..4
    /\ listar_datas_disponiveis(arquivos, inv) # <<>>
    /\ nome \in arquivos \/ Cardinality(arquivos) < MaxFiles
    /\ LET depois == IF nome \in arquivos THEN arquivos \ {nome}
                     ELSE arquivos \cup {nome}
       IN  /\ arquivos' = depois
           /\ Importado([k |-> k, antes |-> arquivos, depois |-> depois,
                         inv |-> inv])
    /\ UNCHANGED <<imgDirExists, resp, fixada>>

\* The forecast pipeline writes a file into IMG_DIR while the app runs.
Depositar(nome) ==
    /\ pc = "ready"
    /\ nome \notin arquivos
    /\ Cardinality(arquivos) < MaxFiles
    /\ arquivos' = arquivos \cup {nome}
    /\ resp' = SemResposta
    /\ fixada' = SemResposta
    /\ UNCHANGED <<imgDirExists, pc, erro, DATAS, DATA_DEFAULT, fig_fixo>>

\* A file of IMG_DIR is deleted while the app runs.
Remover(nome) ==
    /\ pc = "ready"
    /\ nome \in arquivos
    /\ arquivos' = arquivos \ {nome}
    /\ resp' = SemResposta
    /\ fixada' = SemResposta
    /\ UNCHANGED <<imgDirExists, pc, erro, DATAS, DATA_DEFAULT, fig_fixo>>

\* The orders in which the glob of a call may list the files: the calls for
\* prec_acum make one glob, as their first reading of IMG_DIR, the others
\* none.
Ordens(r) ==
    IF r.var = "prec_acum" THEN OrdensDoGlob(arquivos, PrefixAcum) ELSE {FALSE}

\* Two calls the claims compare: the same arguments, or both for prec_acum.
Comparaveis(a, b) == a = b \/ (a.var = "prec_acum" /\ b.var = "prec_acum")

\* Dash calls the callback with the three input values, and IMG_DIR does
\* not change while the call runs.
Callback(r, inv) ==
    /\ pc = "ready"
    /\ resp' = [req |-> r,
                fig |-> atualizar_mapa(r.data, r.var, r.modo,
                                       Estavel(arquivos, inv)),
                corrida |-> FALSE]
    /\ fixada' = IF Comparaveis(fixada.req, r) THEN fixada ELSE SemResposta
    /\ UNCHANGED <<imgDirExists, arquivos, pc, erro, DATAS, DATA_DEFAULT,
                   fig_fixo>>

\* The number of readings of IMG_DIR a call makes when none of them ends it.
LeiturasDoPedido(r) ==
    IF r.var = "prec_acum" THEN Leituras(r.var)
    ELSE IF r.modo = "dia" THEN Leituras(r.var)
    ELSE Leituras(r.var) * (Len(DATAS) + 1)

\* The files a call looks for in IMG_DIR.
ArquivosLidos(r) ==
    IF r.var = "prec_acum" THEN { n \in NomesPossiveis : FnMatch(n, PrefixAcum) }
    ELSE IF r.modo = "dia"
         THEN (IF r.data # None /\ strptime(r.data).ok
               THEN {DailyFile(r.data)} \cap NomesPossiveis ELSE {})
    ELSE { DailyFile(DATAS[i]) : i \in 1..Len(DATAS) }

\* Dash calls the callback, and while the call runs the forecast pipeline
\* writes or deletes one of the files the call looks for: the readings
\* before the k-th find IMG_DIR as it was, the k-th and those after it as
\* it has become.  (A change before the first reading or after the last is
\* Depositar or Remover followed or preceded by Callback.)
CallbackComCorrida(r, nome, k, inv) ==
    /\ pc = "ready"
    /\ nome \in ArquivosLidos(r)
    /\ k \in 2..LeiturasDoPedido(r)
    /\ nome \in arquivos \/ Cardinality(arquivos) < MaxFiles
    /\ LET depois == IF nome \in arquivos THEN arquivos \ {nome}
                     ELSE arquivos \cup {nome}
           fs == [k |-> k, antes |-> arquivos, depois |-> depois, inv |-> inv]
       IN  /\ arquivos' = depois
           /\ resp' = [req |-> r,
                       fig |-> atualizar_mapa(r.data, r.var, r.modo, fs),
                       corrida |-> TRUE]
    /\ fixada' = SemResposta
    /\ UNCHANGED <<imgDirExists, pc, erro, DATAS, DATA_DEFAULT, fig_fixo>>

\* A call of the callback during which IMG_DIR does not change, recorded in
\* fixada instead of resp, to be compared with the call before it and with
\* the calls after it, as long as they are comparable.
CallbackFixado(r, inv) ==
    /\ pc = "ready"
    /\ fixada = SemResposta
    /\ resp = SemResposta \/ Comparaveis(resp.req, r)
    /\ fixada' = [req |-> r,
                  fig |-> atualizar_mapa(r.data, r.var, r.modo,
                                         Estavel(arquivos, inv)),
                  corrida |-> FALSE]
    /\ UNCHANGED <<imgDirExists, arquivos, pc, erro, DATAS, DATA_DEFAULT,
                   fig_fixo, resp>>

Next ==
    \/ \E inv \in OrdensDoGlob(arquivos, PrefixPrec) : ImportarModulo(inv)
    \/ \E k \in 3..4, inv \in OrdensDoGlob(arquivos, PrefixPrec) :
          ImportarComCorrida(FIXO_4PONTOS_PNG, k, inv)
    \/ \E nome \in NomesPossiveis : Depositar(nome)
    \/ \E nome \in NomesPossiveis : Remover(nome)
    \/ \E r \in Pedidos : \E inv \in Ordens(r) : Callback(r, inv)
    \/ \E r \in Pedidos : \E nome \in ArquivosLidos(r) :
          \E k \in 2..LeiturasDoPedido(r), inv \in Ordens(r) :
              CallbackComCorrida(r, nome, k, inv)

Spec == Init /\ [][Next]_vars

NextHist ==
    \/ Next
    \/ \E r \in Pedidos : \E inv \in Ordens(r) : CallbackFixado(r, inv)

\* IMG_DIR is the directory of app.py, which exists when app.py is imported.
InitHist == Init /\ imgDirExists

\* The runs of Spec from there, with one call kept aside.
SpecHist == InitHist /\ [][NextHist]_vars

\* ============================================================ properties

\* The text between "divino_prec_" and ".png" of a file name, by position.
Sufixo(nome) == SubSeq(nome, Len(PrefixPrec) + 1, Len(nome) - Len(PngExt))

\* The files of IMG_DIR named divino_prec_<s>.png, and those among them
\* whose <s> is a calendar date for the date parser.
ArquivosDiarios ==
    { n \in arquivos : /\ Len(n) >= Len(PrefixPrec) + Len(PngExt)
                       /\ StartsWith(n, PrefixPrec) /\ EndsWith(n, PngExt) }
ArquivosComData == { n \in ArquivosDiarios : strptime(Sufixo(n)).ok }

\* The files of IMG_DIR named divino_prec_acumulada_<s>.png.
ArquivosAcumulados ==
    { n \in arquivos : /\ Len(n) >= Len(PrefixAcum) + Len(PngExt)
                       /\ StartsWith(n, PrefixAcum) /\ EndsWith(n, PngExt) }

\* Date a is not after date b, as calendar dates.
ChronLeq(a, b) ==
    LET x == strptime(a)
        y == strptime(b)
    IN  \/ x.y < y.y
        \/ x.y = y.y /\ x.m < y.m
        \/ x.y = y.y /\ x.m = y.m /\ x.d <= y.d

\* The names of the frames of a figure, in order.
NomesDosFrames(fig) == [i \in 1..Len(fig.frames) |-> fig.frames[i].name]

\* The one trace that carries a marker per item of PONTOS_FOCO, in order.
TracoEsperado ==
    [x    |-> [i \in 1..Len(PONTOS_FOCO) |-> PONTOS_FOCO[i].x],
     y    |-> [i \in 1..Len(PONTOS_FOCO) |-> PONTOS_FOCO[i].y],
     text |-> [i \in 1..Len(PONTOS_FOCO) |-> PONTOS_FOCO[i].nome]]

\* A tag YYYY-MM-DD: four, two and two ASCII digits between hyphens, that
\* name a calendar date.
TagAAAAMMDD(s) ==
    /\ Len(s) = 10
    /\ \A i \in {1, 2, 3, 4, 6, 7, 9, 10} : s[i] \in 48..57
    /\ s[5] = 45 /\ s[8] = 45
    /\ strptime(s).ok

\* The files of IMG_DIR named divino_prec_<YYYY-MM-DD>.png.
ArquivosAAAAMMDD == { n \in ArquivosDiarios : TagAAAAMMDD(Sufixo(n)) }

\* Date a is before date b, as calendar dates.
ChronLess(a, b) == ChronLeq(a, b) /\ ~ChronLeq(b, a)

\* The step that ends the import of a module whose IMG_DIR exists; arquivos
\* is what its glob finds.
FimDoImport == pc = "import" /\ pc' # "import" /\ imgDirExists

\* C1: whatever IMG_DIR holds when the module is imported, the scan leaves
\* in DATAS a strictly ascending sequence (as strings and as dates), in
\* which the tag of every file divino_prec_<YYYY-MM-DD>.png occurs exactly
\* once and in which every entry is the tag of such a file.
C1_ScanSortedUnique ==
    [][ FimDoImport =>
          LET tags == { Sufixo(n) : n \in ArquivosAAAAMMDD }
          IN  /\ \A i \in 1..(Len(DATAS') - 1) :
                    /\ StrLess(DATAS'[i], DATAS'[i + 1])
                    /\ ChronLess(DATAS'[i], DATAS'[i + 1])
              /\ \A t \in tags :
                    Cardinality({ i \in 1..Len(DATAS') : DATAS'[i] = t }) = 1
              /\ \A i \in 1..Len(DATAS') : DATAS'[i] \in tags ]_vars

\* C2: a file that the glob divino_prec_*.png yields and whose remainder is
\* no calendar date, every accumulated file among them, adds nothing to
\* DATAS, and the scan raises nothing: the import ends ready, or aborted by
\* the RuntimeError of the emptiness check, or aborted after DATA_DEFAULT
\* was assigned.
C2_UnparsableIgnored ==
    [][ FimDoImport =>
          /\ erro' \in {"none", "RuntimeError", "FileNotFoundError"}
          /\ erro' = "FileNotFoundError" => DATA_DEFAULT' # None
          /\ \A n \in ArquivosDiarios \ ArquivosComData :
                \A i \in 1..Len(DATAS') : DATAS'[i] # Sufixo(n)
          /\ ArquivosAcumulados \subseteq ArquivosDiarios \ ArquivosComData
          /\ Len(DATAS') = Cardinality(ArquivosComData) ]_vars

\* C2 witness: the import has run on a directory that holds a daily map and
\* an accumulated map, and DATAS has the one tag.
C2_Witness ==
    /\ pc = "ready"
    /\ arquivos = { DailyFile(Tag_2025_11_10), AcumFile(Periodo_10_12) }
    /\ DATAS = <<Tag_2025_11_10>>
    /\ resp = SemResposta

\* C3: once ready, DATA_DEFAULT is the latest calendar date of DATAS.
C3_DefaultIsLatest ==
    pc = "ready" => \A i \in 1..Len(DATAS) : ChronLeq(DATAS[i], DATA_DEFAULT)

\* C4: every call for prec in animated mode returns a figure that has one
\* frame per entry of DATAS, named by it and in its order, whatever IMG_DIR
\* holds at the time of the call; the frame of a date whose file is missing
\* has the empty source, the others the data URI of their file; and no step
\* changes DATAS once the app is ready.  (arquivos is what the call found
\* when IMG_DIR did not change while it ran.)
C4_AnimationFollowsDatas ==
    /\ [] ( (resp.req.var = "prec" /\ resp.req.modo = "anim") =>
              /\ resp.fig.exc = "none"
              /\ Len(resp.fig.frames) = Len(DATAS)
              /\ NomesDosFrames(resp.fig) = DATAS
              /\ \A i \in 1..(Len(resp.fig.frames) - 1) :
                    StrLess(resp.fig.frames[i].name, resp.fig.frames[i + 1].name)
              /\ ~resp.corrida =>
                    \A i \in 1..Len(DATAS) :
                        resp.fig.frames[i].source =
                            IF DailyFile(DATAS[i]) \in arquivos
                            THEN DataUri \o b64encode(FileBytes(DailyFile(DATAS[i])))
                            ELSE <<>> )
    /\ [][ pc = "ready" => DATAS' = DATAS ]_vars

\* C5: two calls for prec_acum made on the same content of IMG_DIR (it
\* does not change while either runs, nor between them) return the same
\* figure whatever their date and mode, and that figure is static and
\* titled with the label of prec_acum alone.
C5_AcumIgnoresDateAndMode ==
    /\ (resp.req.var = "prec_acum" /\ ~resp.corrida) => resp.fig.exc = "none"
    /\ (resp.req.var = "prec_acum" /\ resp.fig.exc = "none") =>
          (resp.fig.frames = <<>> /\ resp.fig.title = LabelAcum)
    /\ (resp.req.var = "prec_acum" /\ ~resp.corrida
          /\ fixada.req.var = "prec_acum") =>
          resp.fig = fixada.fig

\* C5 witness: two calls for prec_acum that differ in date and in mode,
\* one with the date of a daily map and the other with a string that is no
\* date, both answered with the image of an accumulated file.
C5_Witness ==
    /\ resp.req.var = "prec_acum" /\ fixada.req.var = "prec_acum"
    /\ ~resp.corrida
    /\ resp.req.data = Tag_2025_02_30 /\ fixada.req.data = DATA_DEFAULT
    /\ resp.req.modo # fixada.req.modo
    /\ resp.fig.images # <<>>

\* C6: once the app is ready no call of the callback raises because a file
\* is not found; a call in daily mode for prec with no date, or with a date
\* that has no file, and a call for prec_acum when IMG_DIR holds no
\* accumulated file, return a figure without image.
C6_NeverRaisesNotFound ==
    LET r == resp.req
        f == resp.fig
    IN  /\ f.exc # "FileNotFoundError"
        /\ (r.var = "prec" /\ r.modo = "dia" /\ r.data = None) =>
              (f.exc = "none" /\ f.images = <<>>)
        /\ ( /\ r.var = "prec" /\ r.modo = "dia" /\ r.data # None
             /\ strptime(r.data).ok
             /\ ~resp.corrida
             /\ DailyFile(r.data) \notin arquivos ) =>
              (f.exc = "none" /\ f.images = <<>> /\ f.frames = <<>>)
        /\ (r.var = "prec_acum" /\ ~resp.corrida /\ ArquivosAcumulados = {}) =>
              (f.exc = "none" /\ f.images = <<>> /\ f.frames = <<>>)

\* C7: the app is ready only when IMG_DIR exists and the scan found a daily
\* map; a missing directory or an empty DATAS aborts the import with its
\* error, and a call is answered only when the app is ready; no call fails
\* on datas_iso[0].
C7_ReadyOnlyWithDates ==
    /\ pc = "ready" => (imgDirExists /\ DATAS # <<>> /\ erro = "none")
    /\ (pc # "import" /\ ~imgDirExists) =>
          (pc = "aborted" /\ erro = "FileNotFoundError")
    /\ (pc # "import" /\ imgDirExists /\ DATAS = <<>>) =>
          (pc = "aborted" /\ erro = "RuntimeError")
    /\ pc = "aborted" => erro \in {"FileNotFoundError", "RuntimeError"}
    /\ pc # "ready" => (resp = SemResposta /\ fixada = SemResposta)
    /\ resp.fig.exc # "IndexError"

\* C7 witness: the app is ready and an animation has been built from DATAS.
C7_Witness ==
    /\ pc = "ready"
    /\ resp.req.var = "prec" /\ resp.req.modo = "anim"
    /\ resp.fig.frames # <<>>

\* C8: every call for prec_acum raises nothing and returns the data URI of
\* the accumulated file that is last in ascending string order among those
\* IMG_DIR holds at the time of the call, and no image when it holds none,
\* whatever the date.  (arquivos is what the call found when IMG_DIR did
\* not change while it ran.)
C8_LatestAccumulated ==
    resp.req.var = "prec_acum" =>
        /\ resp.fig.exc = "none"
        /\ ~resp.corrida =>
              IF ArquivosAcumulados = {} THEN resp.fig.images = <<>>
              ELSE \E n \in ArquivosAcumulados :
                      /\ \A m \in ArquivosAcumulados : m = n \/ StrLess(m, n)
                      /\ resp.fig.images = <<DataUri \o b64encode(FileBytes(n))>>

====
